---- MODULE Spec2Model ----
(***************************************************************************)
(* Joblink.tn: the harvest-and-reconcile pipeline of src/server.js.        *)
(*                                                                         *)
(* src/server.js holds two files of the repository one after the other:    *)
(* server.js (lines 1-301: the store, saveJobs, runScrapers, the routes    *)
(* and the triggers) and scrapers/manager.js (lines 303-466: the three     *)
(* adapters and scrapeAll).                                                *)
(*                                                                         *)
(* JavaScript values are modelled as sequences: a string is the sequence   *)
(* of its characters, undefined and NULL are the one-element sequences     *)
(* Undefined and Null, which no string of the model equals.  A JavaScript  *)
(* object is a TLA+ record; reading a property the object lacks gives      *)
(* Undefined (Prop).                                                       *)
(*                                                                         *)
(* Specifications:                                                         *)
(*   Spec           the program: triggers, collection, runScrapers         *)
(*   SpecLive       Spec with the scheduling of its continuations          *)
(*   SpecSave       saveJobs called on batches of postings                 *)
(*   SpecReconcile  collection, then lines 135-169 of runScrapers on the   *)
(*                  array scrapeAll returned                               *)
(*   SpecExtract    one adapter on a listing page, then saveJobs on its    *)
(*                  batch                                                  *)
(***************************************************************************)
EXTENDS Integers, Sequences, FiniteSets, TLC

\* ------------------------------------------------------------------ bounds
\* direct calls of saveJobs in SpecSave
MaxCalls == 2
\* postings in one batch handed to saveJobs in SpecSave
MaxBatch == 2
\* invocations of runScrapers (they may overlap)
MaxRuns == 2
\* matched elements of a listing page in SpecExtract
MaxElems == 2

\* ------------------------------------------------------- program constants
\* description.substring(0, 500)
DescriptionBound == 500

VARIABLES
  jobs,      \* the rows of table jobs
  logs,      \* the rows of table scraping_logs, in insertion order
  calls,     \* history: one record per completed call of saveJobs
  pc,        \* per run: "Idle", "Collecting" (awaiting scrapeAll),
             \* "Collected" (scrapeAll has returned), "Done"
  trigger,   \* per run: what invoked runScrapers
  adapters,  \* per run and source: the adapter's promise
  result,    \* per run: the value scrapeAll returned
  ret,       \* per run: the value runScrapers returned
  response   \* per run: the HTTP response of POST /api/scrape

vars == <<jobs, logs, calls, pc, trigger, adapters, result, ret, response>>
pipelineVars == <<pc, trigger, adapters, result, ret, response>>

\* -------------------------------------------------------- JavaScript values
Undefined == <<"undefined">>
Null == <<"NULL">>

\* o.k : undefined when the object has no such property
Prop(o, k) == IF k \in DOMAIN o THEN o[k] ELSE Undefined

True == <<"true">>
False == <<"false">>

\* JavaScript truthiness of a string, a boolean, undefined or null
Truthy(v) == v \notin {Undefined, Null, False, <<>>}

\* a || b
OrElse(a, b) == IF Truthy(a) THEN a ELSE b

\* the value a statement parameter is bound to: better-sqlite3 binds
\* undefined, like null, as NULL
Bind(v) == IF v = Undefined THEN Null ELSE v

\* uuidv4(): an identifier no other call returns; k names the call
uuidv4(k) == <<"uuid">> \o k

\* CURRENT_TIMESTAMP / new Date() at the instant named k
Instant(k) == <<"time">> \o k

\* the order in which a run reads the clock: startTime (line 125), duration
\* (line 136), then for each source the jobs rows' timestamps (line 99) and
\* the log row's (line 154)
ClockReads == <<"start", "collected", "save", "log">>

\* -------------------------------------------------------------- table jobs
\* columns declared NOT NULL (id is TEXT PRIMARY KEY without NOT NULL)
NotNullColumns == {"title", "company", "source", "source_url"}

\* the row INSERT OR REPLACE builds from the 13 bound parameters; the columns
\* the statement does not list take their DEFAULT (CURRENT_TIMESTAMP, or NULL)
JobRow(job, t) ==
  [ id           |-> Bind(Prop(job, "id")),
    title        |-> Bind(Prop(job, "title")),
    company      |-> Bind(Prop(job, "company")),
    location     |-> Bind(Prop(job, "location")),
    description  |-> Bind(Prop(job, "description")),
    salary       |-> Bind(Prop(job, "salary")),
    job_type     |-> Bind(Prop(job, "jobType")),
    source       |-> Bind(Prop(job, "source")),
    source_url   |-> Bind(Prop(job, "sourceUrl")),
    posted_date  |-> Bind(Prop(job, "postedDate")),
    scraped_date |-> Bind(Prop(job, "scrapedDate")),
    category     |-> Bind(Prop(job, "category")),
    is_active    |-> Bind(Prop(job, "isActive")),
    skills       |-> Null,
    experience   |-> Null,
    education    |-> Null,
    created_at   |-> t,
    updated_at   |-> t ]

\* the rows a new row conflicts with: same PRIMARY KEY or same UNIQUE
\* source_url (NULL never equals NULL)
Conflicts(store, row) ==
  { r \in store : \/ (row.id # Null /\ r.id = row.id)
                  \/ (row.source_url # Null /\ r.source_url = row.source_url) }

\* a plain INSERT into a table without the two uniqueness constraints
InsertKeepingConflicts(store, row) ==
  IF \E c \in NotNullColumns : row[c] = Null
    THEN [ok |-> FALSE, store |-> store]
    ELSE [ok |-> TRUE, store |-> store \cup {row}]

\* INSERT OR REPLACE: a NOT NULL violation on a column without default
\* aborts the statement (it throws); a uniqueness conflict deletes the
\* conflicting rows and inserts the new one
InsertOrReplace(store, row) ==
  IF \E c \in NotNullColumns : row[c] = Null
    THEN [ok |-> FALSE, store |-> store]
    ELSE [ok |-> TRUE, store |-> (store \ Conflicts(store, row)) \cup {row}]

\* SELECT id FROM jobs WHERE id = ?   (a lookup keyed by the posting's id)
SelectById(store, job) ==
  { r \in store : Bind(Prop(job, "id")) # Null /\ r.id = Bind(Prop(job, "id")) }

\* SELECT id FROM jobs WHERE source_url = ?   with job.sourceUrl bound
SelectBySourceUrl(store, job) ==
  { r \in store : /\ Bind(Prop(job, "sourceUrl")) # Null
                  /\ r.source_url = Bind(Prop(job, "sourceUrl")) }

\* the rows the read queries select: ... WHERE is_active = 1 (NULL = 1 is
\* not true)
SelectActive(store) == { r \in store : r.is_active = <<"1">> }

\* ---------------------------------------------------------------- saveJobs
\* an iteration that leaves a row it finds as it is (INSERT OR IGNORE)
SaveOneIgnoring(st, job, t) ==
  LET existing == SelectBySourceUrl(st.store, job)
      w        == IF existing = {} THEN InsertOrReplace(st.store, JobRow(job, t))
                  ELSE [store |-> st.store, ok |-> TRUE]
  IN  [ store   |-> w.store,
        added   |-> IF existing = {} THEN st.added + 1 ELSE st.added,
        updated |-> IF existing # {} THEN st.updated + 1 ELSE st.updated,
        steps   |-> Append(st.steps,
                      [ existing |-> existing, ok |-> w.ok,
                        after |-> SelectBySourceUrl(w.store, job) ]) ]

\* one iteration of the for loop: lookup, count, write; a throwing write is
\* caught and leaves the store as it was, after the counter was incremented.
\* steps records, per iteration, the rows the lookup found, whether the write
\* went through, and the rows stored under the posting's sourceUrl afterwards
SaveOne(st, job, t) ==
  LET existing == SelectBySourceUrl(st.store, job)
      w        == InsertOrReplace(st.store, JobRow(job, t))
  IN  [ store   |-> w.store,
        added   |-> IF existing = {} THEN st.added + 1 ELSE st.added,
        updated |-> IF existing # {} THEN st.updated + 1 ELSE st.updated,
        steps   |-> Append(st.steps,
                      [ existing |-> existing, ok |-> w.ok,
                        after |-> SelectBySourceUrl(w.store, job) ]) ]

RECURSIVE SaveFromAborting(_, _, _, _)
\* a loop whose try/catch encloses the for statement: the first throwing
\* write ends the loop
SaveFromAborting(batch, i, st, t) ==
  IF i > Len(batch) \/ (i > 1 /\ ~st.steps[i - 1].ok)
    THEN st
    ELSE SaveFromAborting(batch, i + 1, SaveOne(st, batch[i], t), t)

RECURSIVE SaveFrom(_, _, _, _)
\* the for loop from posting i on
SaveFrom(batch, i, st, t) ==
  IF i > Len(batch)
    THEN st
    ELSE SaveFrom(batch, i + 1, SaveOne(st, batch[i], t), t)

\* saveJobs(jobs, source) on the store, at instant t: the store it leaves,
\* the {added, updated} it returns, and the trace of its iterations
saveJobs(batch, source, store, t) ==
  LET st == SaveFrom(batch, 1,
              [store |-> store, added |-> 0, updated |-> 0, steps |-> <<>>], t)
  IN  [ store |-> st.store,
        ret   |-> [added |-> st.added, updated |-> st.updated],
        steps |-> st.steps ]

\* the record of one call in the history
CallRecord(batch, source, store, r) ==
  [ batch |-> batch, source |-> source, pre |-> store,
    ret |-> r.ret, steps |-> r.steps ]

\* ------------------------------------------------------------------- text
\* the characters of page text in the model: a blank, a lower-case and an
\* upper-case letter
Whitespace == { " " }

\* String.prototype.toLowerCase on one character
LowerChar(c) == IF c = "A" THEN "a" ELSE c

RECURSIVE TrimStart(_)
TrimStart(s) ==
  IF s # <<>> /\ Head(s) \in Whitespace THEN TrimStart(Tail(s)) ELSE s

RECURSIVE TrimEnd(_)
TrimEnd(s) ==
  IF s # <<>> /\ s[Len(s)] \in Whitespace
    THEN TrimEnd(SubSeq(s, 1, Len(s) - 1))
    ELSE s

\* String.prototype.trim
Trim(s) == TrimEnd(TrimStart(s))

\* a substring that stops one character early
SubstringShort(s, n) == IF Len(s) <= n THEN s ELSE SubSeq(s, 1, n - 1)

\* s.substring(0, n)
Substring0(s, n) == IF Len(s) <= n THEN s ELSE SubSeq(s, 1, n)

RECURSIVE ReplaceRuns(_, _)
\* s.replace(/\s+/g, '-') from character i on
ReplaceRuns(s, i) ==
  IF i > Len(s) THEN <<>>
  ELSE IF s[i] \in Whitespace
    THEN (IF i > 1 /\ s[i - 1] \in Whitespace THEN <<>> ELSE <<"-">>)
           \o ReplaceRuns(s, i + 1)
    ELSE <<s[i]>> \o ReplaceRuns(s, i + 1)

\* title.replace(/\s+/g, '-').toLowerCase()
Slug(title) ==
  LET d == ReplaceRuns(title, 1) IN [i \in 1..Len(d) |-> LowerChar(d[i])]

\* --------------------------------------------------------------- adapters
Sources == <<"tanitjob", "keejob", "linkedin">>

\* the listing URL prefix of a live source's sourceUrl template
UrlPrefix(source) ==
  IF source = "tanitjob"
    THEN <<"https://www.tanitjob.com/offres-emploi/">>
    ELSE <<"https://www.keejob.com/emploi/">>

\* an acceptance test that looks at the title alone
AcceptsTitleOnly(title, company) == Truthy(title)

\* if (title && company)
Accepts(title, company) == Truthy(title) /\ Truthy(company)

\* the callback of .each on one matched element: the postings it pushes
\* (none or one); k names the uuidv4 call
ExtractItem(item, source, k) ==
  LET title       == Trim(item.title)
      company     == Trim(item.company)
      location    == Trim(item.location)
      description == Trim(item.description)
  IN  IF Accepts(title, company)
        THEN << [ id          |-> uuidv4(k),
                  title       |-> title,
                  company     |-> company,
                  location    |-> OrElse(location, <<"Non spécifié">>),
                  description |-> Substring0(description, DescriptionBound),
                  salary      |-> <<>>,
                  job_type    |-> <<"CDI">>,
                  source      |-> <<source>>,
                  sourceUrl   |-> UrlPrefix(source) \o Slug(title),
                  posted_date |-> Instant(<<"parse", k[1], source>>) ] >>
        ELSE <<>>

RECURSIVE ExtractFrom(_, _, _, _)
\* .each over the matched elements of the page, from element i on
ExtractFrom(page, i, source, r) ==
  IF i > Len(page)
    THEN <<>>
    ELSE ExtractItem(page[i], source, <<r, source, i>>)
           \o ExtractFrom(page, i + 1, source, r)

\* what a live adapter returns for the outcome of its fetch: the extracted
\* postings, or [] when axios.get or the parsing threw
Harvest(fetch, source, r) ==
  IF fetch.ok THEN ExtractFrom(fetch.page, 1, source, r) ELSE <<>>

\* scrapeTanitjob() of run r, given the outcome of its fetch
scrapeTanitjob(fetch, r) == Harvest(fetch, "tanitjob", r)

\* scrapeKeejob() of run r, given the outcome of its fetch
scrapeKeejob(fetch, r) == Harvest(fetch, "keejob", r)

\* one of the three fixed postings of scrapeLinkedin
LinkedinJob(r, i, title, company, location, description, salary, n) ==
  [ id          |-> uuidv4(<<r, "linkedin", i>>),
    title       |-> <<title>>,
    company     |-> <<company>>,
    location    |-> <<location>>,
    description |-> <<description>>,
    salary      |-> <<salary>>,
    job_type    |-> <<"CDI">>,
    source      |-> <<"linkedin">>,
    sourceUrl   |-> <<"https://www.linkedin.com/jobs/view/", n>>,
    posted_date |-> Instant(<<"parse", r, "linkedin">>) ]

\* scrapeLinkedin() of run r: it awaits nothing and cannot fail
scrapeLinkedin(r) ==
  << LinkedinJob(r, 1, "Développeur Full Stack", "Tech Startup Tunisie", "Tunis",
       "Nous recherchons un développeur full stack expérimenté pour rejoindre notre équipe.",
       "2000-3000 TND", "1234567890"),
     LinkedinJob(r, 2, "Ingénieur DevOps", "Digital Solutions", "Sfax",
       "Rejoignez notre équipe DevOps pour gérer notre infrastructure cloud.",
       "2500-3500 TND", "1234567891"),
     LinkedinJob(r, 3, "Data Scientist", "AI Solutions", "Ariana",
       "Nous cherchons un data scientist pour analyser nos données.",
       "2800-4000 TND", "1234567892") >>

\* an adapter's promise: pending, or fulfilled with the postings it returned;
\* fetch keeps the outcome of its request
Pending == [state |-> "pending", fetch |-> [ok |-> FALSE, page |-> <<>>], value |-> <<>>]
Fulfilled(fetch, value) == [state |-> "fulfilled", fetch |-> fetch, value |-> value]

\* -------------------------------------------------------------- scrapeAll
\* a JavaScript array, and a plain object with the given properties
ArrayValue(elems) == [type |-> "array", elems |-> elems, props |-> <<>>]
ObjectValue(props) == [type |-> "object", elems |-> <<>>, props |-> props]

\* v.k for a property name k that arrays do not have
GetProp(v, k) ==
  IF v.type = "object" /\ k \in DOMAIN v.props THEN v.props[k] ELSE Undefined

\* a Promise.race in the place of Promise.all: one settled adapter is enough
AnySettled(ads) == \E s \in DOMAIN ads : ads[s].state # "pending"

\* Promise.all over the three adapter promises has settled: none of the
\* adapters rejects, so that is when all three have been fulfilled
AllSettled(ads) == \A s \in DOMAIN ads : ads[s].state # "pending"

\* what scrapeAll returns once Promise.all has settled: the three arrays
\* spread into one; its catch (a rejected adapter promise) returns []
scrapeAll(ads) ==
  IF \E s \in DOMAIN ads : ads[s].state = "rejected"
    THEN ArrayValue(<<>>)
    ELSE ArrayValue(ads.tanitjob.value \o ads.keejob.value \o ads.linkedin.value)

\* ------------------------------------------------------------ runScrapers
\* allJobs.filter(job => job.source === source)
FilterBySource(allJobs, source) ==
  SelectSeq(allJobs, LAMBDA job : Prop(job, "source") = <<source>>)

\* the row logStmt.run inserts into scraping_logs
LogRow(r, source, scraped, stats, duration) ==
  [ id            |-> uuidv4(<<r, "log", source>>),
    source        |-> <<source>>,
    jobs_scraped  |-> scraped,
    jobs_added    |-> stats.added,
    jobs_updated  |-> stats.updated,
    status        |-> <<"success">>,
    error_message |-> Null,
    scraped_at    |-> Instant(<<"log", r, source>>),
    duration      |-> duration ]

\* a loop body without the test of sourceJobs.length
ReconcileSourceAlways(st, allJobs, source, r, duration) ==
  LET sourceJobs == FilterBySource(allJobs, source)
      saved      == saveJobs(sourceJobs, <<source>>, st.store,
                             Instant(<<"save", r, source>>))
  IN  [ store |-> saved.store,
        stats |-> (source :> saved.ret) @@ st.stats,
        logs  |-> Append(st.logs,
                    LogRow(r, source, Len(sourceJobs), saved.ret, duration)),
        calls |-> Append(st.calls,
                    CallRecord(sourceJobs, <<source>>, st.store, saved)) ]

\* the body of the for loop over sources, for one source; st carries the
\* store, the log table, the stats object and the history of saveJobs calls
ReconcileSource(st, allJobs, source, r, duration) ==
  LET sourceJobs == FilterBySource(allJobs, source)
      saved      == saveJobs(sourceJobs, <<source>>, st.store,
                             Instant(<<"save", r, source>>))
  IN  IF Len(sourceJobs) > 0
        THEN [ store |-> saved.store,
               stats |-> (source :> saved.ret) @@ st.stats,
               logs  |-> Append(st.logs,
                           LogRow(r, source, Len(sourceJobs), saved.ret, duration)),
               calls |-> Append(st.calls,
                           CallRecord(sourceJobs, <<source>>, st.store, saved)) ]
        ELSE st

RECURSIVE ReconcileFrom(_, _, _, _, _)
\* the for loop over sources, from source i on
ReconcileFrom(st, allJobs, i, r, duration) ==
  IF i > Len(Sources)
    THEN st
    ELSE ReconcileFrom(ReconcileSource(st, allJobs, Sources[i], r, duration),
                       allJobs, i + 1, r, duration)

\* a catch block that also records the failed run in scraping_logs
CatchErrorLogging(message, st) ==
  [ store |-> st.store,
    logs  |-> Append(st.logs,
                [ id |-> uuidv4(<<"failure", Len(st.logs)>>), source |-> <<"all">>,
                  jobs_scraped |-> 0, jobs_added |-> 0, jobs_updated |-> 0,
                  status |-> <<"failure">>, error_message |-> message,
                  scraped_at |-> Instant(<<"failure">>), duration |-> Null ]),
    calls |-> st.calls,
    ret   |-> [success |-> False, error |-> message] ]

\* a catch block that returns the failure without its message
CatchErrorWithoutMessage(message, st) ==
  [ store |-> st.store, logs |-> st.logs, calls |-> st.calls,
    ret   |-> [success |-> False, error |-> Undefined] ]

\* the catch block of runScrapers: the message is logged and returned
CatchError(message, st) ==
  [ store |-> st.store, logs |-> st.logs, calls |-> st.calls,
    ret   |-> [success |-> False, error |-> message] ]

\* runScrapers of run r on the postings scrapeAll collected, lines 135 to
\* 169: duration is taken on line 136, before the loop over the sources, and
\* the summary returned carries success, stats and totalJobs
Reconcile(allJobs, r, st) ==
  LET duration == [from |-> Instant(<<"start", r>>), to |-> Instant(<<"collected", r>>)]
      done     == ReconcileFrom([ store |-> st.store, logs |-> st.logs,
                                  calls |-> st.calls, stats |-> <<>> ],
                                allJobs, 1, r, duration)
  IN  [ store |-> done.store, logs |-> done.logs, calls |-> done.calls,
        ret   |-> [ success |-> True, stats |-> done.stats,
                    totalJobs |-> Len(allJobs) ] ]

\* runScrapers of run r from the return of scrapeAll to its own return: the
\* success test, and then either the throw and the catch block or the
\* reconciliation of the three sources. It awaits nothing, so it runs as one
\* step.
runScrapersAfterAwait(res, r, st) ==
  IF ~Truthy(GetProp(res, "success"))
    THEN CatchError(OrElse(GetProp(res, "error"), <<"Erreur lors du scraping">>), st)
  ELSE IF GetProp(res, "jobs") = Undefined
    THEN CatchError(<<"Cannot read properties of undefined (reading 'filter')">>, st)
  ELSE Reconcile(GetProp(res, "jobs"), r, st)

\* ---------------------------------------------------------- the program
Runs == 1..MaxRuns

\* the raw elements of the sample pages: the texts of the title, company,
\* location and description selectors before trimming
RawItem(title, company) ==
  [title |-> title, company |-> company, location |-> <<>>, description |-> <<"d", " ">>]

\* the listing page a successful fetch returns in Spec: three acceptable
\* elements (one title with a leading blank, one company with a trailing
\* blank, one title that differs from the first in case only), one whose
\* title is blank and one without company
SamplePages ==
  { << RawItem(<<" ", "a">>, <<"c">>), RawItem(<<" ">>, <<"c">>),
       RawItem(<<"A", " ", "a">>, <<"c", " ">>), RawItem(<<"a">>, <<>>),
       RawItem(<<"A">>, <<"c">>) >> }

\* the outcomes of axios.get followed by cheerio.load: a page, or a throw
\* (network error, timeout after 10 s, parse failure)
FetchOutcomes ==
  { [ok |-> TRUE, page |-> p] : p \in SamplePages } \cup { [ok |-> FALSE, page |-> <<>>] }

Init ==
  /\ jobs = {}
  /\ logs = <<>>
  /\ calls = <<>>
  /\ pc = [r \in Runs |-> "Idle"]
  /\ trigger = [r \in Runs |-> "none"]
  /\ adapters = [r \in Runs |-> [tanitjob |-> Pending, keejob |-> Pending, linkedin |-> Pending]]
  /\ result = [r \in Runs |-> ArrayValue(<<>>)]
  /\ ret = [r \in Runs |-> <<>>]
  /\ response = [r \in Runs |-> <<>>]

\* the next run to start: runs are numbered in the order of their triggers
NextRun == CHOOSE r \in Runs : pc[r] = "Idle" /\ \A q \in 1..(r - 1) : pc[q] # "Idle"

\* runScrapers() up to its await: scrapeAll() calls the three adapters; the
\* two live ones suspend on axios.get, scrapeLinkedin runs to its return
Start(kind) ==
  /\ \E r \in Runs : pc[r] = "Idle"
  /\ LET r == NextRun
     IN  /\ pc' = [pc EXCEPT ![r] = "Collecting"]
         /\ trigger' = [trigger EXCEPT ![r] = kind]
         /\ adapters' = [adapters EXCEPT ![r].linkedin =
                           Fulfilled([ok |-> TRUE, page |-> <<>>], scrapeLinkedin(r))]
  /\ UNCHANGED <<jobs, logs, calls, result, ret, response>>

\* app.listen's callback: the run at startup, once
Startup ==
  /\ \A r \in Runs : trigger[r] # "startup"
  /\ Start("startup")

\* cron.schedule('0 * * * *'): the hourly run
Scheduled == Start("cron")

\* POST /api/scrape: the run on demand
OnDemand == Start("request")

\* the fetch of scrapeTanitjob of run r completes and the adapter returns
TanitjobDone(r) ==
  /\ pc[r] = "Collecting"
  /\ adapters[r].tanitjob.state = "pending"
  /\ \E f \in FetchOutcomes :
       adapters' = [adapters EXCEPT ![r].tanitjob = Fulfilled(f, scrapeTanitjob(f, r))]
  /\ UNCHANGED <<jobs, logs, calls, pc, trigger, result, ret, response>>

\* the fetch of scrapeKeejob of run r completes and the adapter returns
KeejobDone(r) ==
  /\ pc[r] = "Collecting"
  /\ adapters[r].keejob.state = "pending"
  /\ \E f \in FetchOutcomes :
       adapters' = [adapters EXCEPT ![r].keejob = Fulfilled(f, scrapeKeejob(f, r))]
  /\ UNCHANGED <<jobs, logs, calls, pc, trigger, result, ret, response>>

\* Promise.all settles once the three adapters have, and scrapeAll returns
ScrapeAllReturns(r) ==
  /\ pc[r] = "Collecting"
  /\ AllSettled(adapters[r])
  /\ result' = [result EXCEPT ![r] = scrapeAll(adapters[r])]
  /\ pc' = [pc EXCEPT ![r] = "Collected"]
  /\ UNCHANGED <<jobs, logs, calls, trigger, adapters, ret, response>>

\* runScrapers resumes after its await and runs to its return; the route
\* handler of an on-demand run then answers
RunScrapersReturns(r) ==
  /\ pc[r] = "Collected"
  /\ LET out == runScrapersAfterAwait(result[r], r,
                  [store |-> jobs, logs |-> logs, calls |-> calls])
     IN  /\ jobs' = out.store
         /\ logs' = out.logs
         /\ calls' = out.calls
         /\ ret' = [ret EXCEPT ![r] = out.ret]
         /\ response' = [response EXCEPT ![r] =
              IF trigger[r] = "request"
                THEN [status |-> 200, body |-> [success |-> out.ret.success, data |-> out.ret]]
                ELSE <<>>]
  /\ pc' = [pc EXCEPT ![r] = "Done"]
  /\ UNCHANGED <<trigger, adapters, result>>

Next ==
  \/ Startup
  \/ Scheduled
  \/ OnDemand
  \/ \E r \in Runs : TanitjobDone(r)
  \/ \E r \in Runs : KeejobDone(r)
  \/ \E r \in Runs : ScrapeAllReturns(r)
  \/ \E r \in Runs : RunScrapersReturns(r)

Spec == Init /\ [][Next]_vars

\* Spec with the scheduling of the continuations: each fetch completes, fails
\* or times out (axios is given timeout: 10000), and the event loop resumes
\* scrapeAll and runScrapers once the promises they await have settled
Fairness ==
  \A r \in Runs :
    /\ WF_vars(TanitjobDone(r))
    /\ WF_vars(KeejobDone(r))
    /\ WF_vars(ScrapeAllReturns(r))
    /\ WF_vars(RunScrapersReturns(r))

SpecLive == Spec /\ Fairness

\* ------------------------- SpecReconcile: the reconciliation of a collection
\* Lines 135 to 169 of runScrapers applied to the array scrapeAll returned:
\* the branch the success test of line 131 guards. Runs are started by the
\* scheduler only; collection is that of Spec.
Reconciles(r) ==
  /\ pc[r] = "Collected"
  /\ LET out == Reconcile(result[r].elems, r,
                  [store |-> jobs, logs |-> logs, calls |-> calls])
     IN  /\ jobs' = out.store
         /\ logs' = out.logs
         /\ calls' = out.calls
         /\ ret' = [ret EXCEPT ![r] = out.ret]
  /\ pc' = [pc EXCEPT ![r] = "Done"]
  /\ UNCHANGED <<trigger, adapters, result, response>>

NextReconcile ==
  \/ Scheduled
  \/ \E r \in Runs : TanitjobDone(r)
  \/ \E r \in Runs : KeejobDone(r)
  \/ \E r \in Runs : ScrapeAllReturns(r)
  \/ \E r \in Runs : Reconciles(r)

SpecReconcile == Init /\ [][NextReconcile]_vars

\* ----------------------- SpecExtract: one adapter on a page, and its batch
\* a text of n characters that are not whitespace; the characters up to the
\* bound, at it and after it differ
Text(n) ==
  [ i \in 1..n |-> IF i < DescriptionBound THEN "d"
                   ELSE IF i = DescriptionBound THEN "e" ELSE "f" ]

\* the texts of the description selector: none, one character short of the
\* bound, at the bound, one over it, at the bound once trimmed, over the
\* bound once trimmed, and over the bound with a blank as character 500
ExtractDescriptions ==
  { <<>>,
    Text(DescriptionBound - 1),
    Text(DescriptionBound),
    Text(DescriptionBound + 1),
    <<" ">> \o Text(DescriptionBound) \o <<" ">>,
    <<" ">> \o Text(DescriptionBound + 1),
    Text(DescriptionBound - 1) \o <<" ", "f">> }

\* the listing pages of SpecExtract: up to MaxElems matched elements, with
\* title and company present
ExtractPages ==
  UNION { [ 1..n -> { [ title |-> <<"a">>, company |-> <<"c">>,
                        location |-> <<>>, description |-> d ] :
                      d \in ExtractDescriptions } ] : n \in 1..MaxElems }

\* scrapeTanitjob called on its own, its fetch returning a page
ExtractTanitjob ==
  /\ \A s \in DOMAIN adapters[1] : adapters[1][s].state = "pending"
  /\ \E p \in ExtractPages :
       LET f == [ok |-> TRUE, page |-> p]
       IN  adapters' = [adapters EXCEPT ![1].tanitjob = Fulfilled(f, scrapeTanitjob(f, 1))]
  /\ UNCHANGED <<jobs, logs, calls, pc, trigger, result, ret, response>>

\* scrapeKeejob called on its own, its fetch returning a page
ExtractKeejob ==
  /\ \A s \in DOMAIN adapters[1] : adapters[1][s].state = "pending"
  /\ \E p \in ExtractPages :
       LET f == [ok |-> TRUE, page |-> p]
       IN  adapters' = [adapters EXCEPT ![1].keejob = Fulfilled(f, scrapeKeejob(f, 1))]
  /\ UNCHANGED <<jobs, logs, calls, pc, trigger, result, ret, response>>

\* saveJobs(sourceJobs, source) on the batch the adapter returned
StoreExtracted ==
  /\ calls = <<>>
  /\ \E i \in 1..Len(Sources) :
       LET source == Sources[i]
           batch  == adapters[1][source].value
           saved  == saveJobs(batch, <<source>>, jobs, Instant(<<"save", 1, source>>))
       IN  /\ adapters[1][source].state = "fulfilled"
           /\ jobs' = saved.store
           /\ calls' = Append(calls, CallRecord(batch, <<source>>, jobs, saved))
  /\ UNCHANGED <<logs, pc, trigger, adapters, result, ret, response>>

NextExtract ==
  \/ ExtractTanitjob
  \/ ExtractKeejob
  \/ StoreExtracted

SpecExtract == Init /\ [][NextExtract]_vars

\* --------------------------------------------- SpecSave: saveJobs on its own
\* the <<title, sourceUrl>> of the postings handed to saveJobs directly: two
\* sourceUrls, and a posting without title
InputKinds ==
  { << <<"a">>, <<"https://example.com/x">> >>,
    << <<"a">>, <<"https://example.com/y">> >>,
    << Undefined, <<"https://example.com/x">> >> }

\* a posting in the shape the adapters build (ids are fresh)
InputJob(k, i, title, url) ==
  [ id          |-> uuidv4(<<"call", k, i>>),
    title       |-> title,
    company     |-> <<"c">>,
    location    |-> <<"Non spécifié">>,
    description |-> <<>>,
    salary      |-> <<>>,
    job_type    |-> <<"CDI">>,
    source      |-> <<"tanitjob">>,
    sourceUrl   |-> url,
    posted_date |-> Instant(<<"call", k>>) ]

\* the batches of call k
Batches(k) ==
  UNION { { [i \in 1..n |-> InputJob(k, i, f[i][1], f[i][2])] :
              f \in [1..n -> InputKinds] } : n \in 0..MaxBatch }


\* the database file outlives the process (CREATE TABLE IF NOT EXISTS): the
\* store saveJobs starts from is empty, or holds a row that an earlier
\* process stored for one of the sourceUrls under another title
PriorStores ==
  { {},
    saveJobs(<< InputJob(0, 1, <<"b">>, <<"https://example.com/x">>) >>,
             <<"tanitjob">>, {}, Instant(<<"call", 0>>)).store }

InitSave ==
  /\ jobs \in PriorStores
  /\ logs = <<>>
  /\ calls = <<>>
  /\ pc = [r \in Runs |-> "Idle"]
  /\ trigger = [r \in Runs |-> "none"]
  /\ adapters = [r \in Runs |-> [tanitjob |-> Pending, keejob |-> Pending, linkedin |-> Pending]]
  /\ result = [r \in Runs |-> ArrayValue(<<>>)]
  /\ ret = [r \in Runs |-> <<>>]
  /\ response = [r \in Runs |-> <<>>]

SaveJobsCall ==
  /\ Len(calls) < MaxCalls
  /\ \E batch \in Batches(Len(calls) + 1) :
       LET k == Len(calls) + 1
           r == saveJobs(batch, <<"tanitjob">>, jobs, Instant(<<"call", k>>))
       IN  /\ jobs' = r.store
           /\ calls' = Append(calls, CallRecord(batch, <<"tanitjob">>, jobs, r))
  /\ UNCHANGED <<logs, pipelineVars>>

NextSave == SaveJobsCall

SpecSave == InitSave /\ [][NextSave]_vars

\* ------------------------------------------------- claims about saveJobs
\* a posting with the two mandatory fields of a canonical posting
Canonical(job) == Truthy(Prop(job, "title")) /\ Truthy(Prop(job, "company"))

RowsWithUrl(store, url) == { r \in store : r.source_url = url }

\* the store as call k of the history left it
StoreAfter(k) == IF k = Len(calls) THEN jobs ELSE calls[k + 1].pre

\* calls k and k+1 each reconcile one canonical posting, with the same
\* sourceUrl
ReconciledTwice(k) ==
  /\ Len(calls[k].batch) = 1
  /\ Len(calls[k + 1].batch) = 1
  /\ Canonical(calls[k].batch[1])
  /\ Canonical(calls[k + 1].batch[1])
  /\ calls[k].batch[1].sourceUrl = calls[k + 1].batch[1].sourceUrl

\* C1: idempotence of reconciliation. Whatever the store holds, when saveJobs
\* reconciles a canonical posting and is then called again with a canonical
\* posting of the same sourceUrl, the store holds exactly one row with that
\* sourceUrl; and if the sourceUrl was absent before the first call, the
\* first call returns {added: 1, updated: 0} and the second
\* {added: 0, updated: 1}.
C1_Idempotence ==
  \A k \in 1..(Len(calls) - 1) :
    ReconciledTwice(k) =>
      LET url == calls[k].batch[1].sourceUrl
      IN  /\ Cardinality(RowsWithUrl(StoreAfter(k + 1), url)) = 1
          /\ RowsWithUrl(calls[k].pre, url) = {} =>
               /\ calls[k].ret = [added |-> 1, updated |-> 0]
               /\ calls[k + 1].ret = [added |-> 0, updated |-> 1]

\* C1 witness: a posting was reconciled twice on a store that held a row of
\* another sourceUrl and none of its own
C1_Witness ==
  \E k \in 1..(Len(calls) - 1) :
    /\ ReconciledTwice(k)
    /\ calls[k].pre # {}
    /\ RowsWithUrl(calls[k].pre, calls[k].batch[1].sourceUrl) = {}
    /\ calls[k + 1].ret.updated = 1

\* the same two calls on a store that already held a row of the sourceUrl,
\* under another title
C1_WitnessPresent ==
  \E k \in 1..(Len(calls) - 1) :
    /\ ReconciledTwice(k)
    /\ \E row \in RowsWithUrl(calls[k].pre, calls[k].batch[1].sourceUrl) :
         row.title # calls[k].batch[1].title
    /\ calls[k].ret.updated = 1

\* C2: uniqueness. In every state of the store no two rows of jobs share
\* their source_url.
C2_UniqueSourceUrl ==
  \A r1 \in jobs : \A r2 \in jobs : r1.source_url = r2.source_url => r1 = r2

\* C2 witness: one batch held the same sourceUrl twice, both writes went
\* through, and the store holds rows of two different sourceUrls
C2_Witness ==
  /\ Len(calls) > 0
  /\ LET c == calls[Len(calls)]
     IN  \E i \in 1..Len(c.batch) : \E j \in 1..Len(c.batch) :
           /\ i < j
           /\ c.batch[i].sourceUrl = c.batch[j].sourceUrl
           /\ c.steps[i].ok /\ c.steps[j].ok
  /\ Cardinality({ r.source_url : r \in jobs }) = 2

\* C3: when the lookup finds a stored row for the posting's sourceUrl, the
\* row stored under that sourceUrl after the write has the id and the
\* created_at of the row found, and not the posting's own id.
C3_IdAndCreatedAtPreserved ==
  \A k \in 1..Len(calls) : \A i \in 1..Len(calls[k].steps) :
    LET s == calls[k].steps[i]
    IN  (s.existing # {} /\ s.ok) =>
          \A e \in s.existing : \A r \in s.after :
            /\ r.id = e.id
            /\ r.created_at = e.created_at
            /\ r.id # Bind(Prop(calls[k].batch[i], "id"))

\* C7: a posting whose write fails increments neither counter: added +
\* updated of a call is the number of its postings whose write succeeded.
C7_FailedWriteNotCounted ==
  \A k \in 1..Len(calls) :
    calls[k].ret.added + calls[k].ret.updated
      = Cardinality({ i \in 1..Len(calls[k].steps) : calls[k].steps[i].ok })

\* C8: a failing write does not abort the batch. Every call of saveJobs
\* looks up and writes every posting of its batch and returns; a canonical
\* posting that follows a failed write is stored.
C8_FailureDoesNotAbortBatch ==
  \A k \in 1..Len(calls) :
    LET c == calls[k]
    IN  /\ Len(c.steps) = Len(c.batch)
        /\ \A i \in 1..Len(c.steps) : \A j \in 1..Len(c.batch) :
             (i < j /\ ~c.steps[i].ok /\ Canonical(c.batch[j])) =>
               /\ j <= Len(c.steps)
               /\ c.steps[j].ok
               /\ \E r \in c.steps[j].after : r.id = c.batch[j].id

\* C8 witness: a write failed and a later posting of the batch was stored
C8_Witness ==
  \E k \in 1..Len(calls) :
    \E i \in 1..Len(calls[k].steps) : \E j \in 1..Len(calls[k].steps) :
      /\ i < j
      /\ ~calls[k].steps[i].ok
      /\ calls[k].steps[j].ok
      /\ \E r \in jobs : r.id = calls[k].batch[j].id

\* ------------------------------------------------ claims about the pipeline
LiveSources == {"tanitjob", "keejob"}

\* the live adapters of run r whose fetch threw
Failed(r) == { s \in LiveSources : ~adapters[r][s].fetch.ok }

\* the postings the adapter of source s returned in run r
Returned(r, s) == adapters[r][s].value

\* C4: adapter isolation. In a finished run where one adapter failed and so
\* returned [], every posting the other adapters returned is in the store
\* and counted in the run's per-source added/updated counters.
C4_AdapterIsolation ==
  \A r \in Runs :
    (pc[r] = "Done" /\ Failed(r) # {}) =>
      \A s \in DOMAIN adapters[r] : \A i \in 1..Len(Returned(r, s)) :
        /\ RowsWithUrl(jobs, Returned(r, s)[i].sourceUrl) # {}
        /\ ret[r].success = True
        /\ s \in DOMAIN ret[r].stats
        /\ ret[r].stats[s].added + ret[r].stats[s].updated = Len(Returned(r, s))

\* C5: adapter failures never set the failure flag. Every run in which
\* scrapeAll returned, whether its adapters succeeded or failed, returns
\* success: true.
C5_SuccessDespiteAdapterFailures ==
  \A r \in Runs : pc[r] = "Done" => ret[r].success = True

\* C6: in the result of a run where one source's fetch failed, stats holds
\* {added: 0, updated: 0} for that source and, for each other source, counts
\* that add up to the postings it returned.
C6_StatsOfFailedSource ==
  \A r \in Runs :
    (pc[r] = "Done" /\ Cardinality(Failed(r)) = 1) =>
      /\ ret[r].success = True
      /\ \A s \in DOMAIN adapters[r] :
           /\ s \in DOMAIN ret[r].stats
           /\ s \in Failed(r) => ret[r].stats[s] = [added |-> 0, updated |-> 0]
           /\ s \notin Failed(r) =>
                ret[r].stats[s].added + ret[r].stats[s].updated = Len(Returned(r, s))

\* run r returns in this step, with success: false
ReturnsFailure(r) ==
  pc[r] = "Collected" /\ pc'[r] = "Done" /\ ret'[r].success = False

\* C9: a run that returns success: false has reconciled nothing and logged
\* nothing: the step in which it returns (the only one in which a run
\* touches the store) leaves jobs and scraping_logs as they were and calls
\* saveJobs for no source, and its result carries an error string.
C9_FailedRunLeavesStore ==
  [][ \A r \in Runs :
        ReturnsFailure(r) =>
          /\ jobs' = jobs
          /\ logs' = logs
          /\ calls' = calls
          /\ "error" \in DOMAIN ret'[r]
          /\ Truthy(ret'[r].error) ]_vars

\* C9 witness: a run has returned success: false to an on-demand caller
\* after its adapters had returned postings
C9_Witness ==
  \E r \in Runs :
    /\ pc[r] = "Done"
    /\ ret[r].success = False
    /\ trigger[r] = "request"
    /\ response[r].body.success = False
    /\ Len(result[r].elems) > 3

\* the elements of a page that the filter must drop: title or company empty
\* after trimming
Invalid(item) ==
  \/ \A i \in 1..Len(item.title) : item.title[i] \in Whitespace
  \/ \A i \in 1..Len(item.company) : item.company[i] \in Whitespace

NonEmptyText(v) ==
  /\ v \notin {Undefined, Null}
  /\ \E i \in 1..Len(v) : v[i] \notin Whitespace

\* C10: acceptance filter. An extracted element whose title or company is
\* empty after trimming never reaches the store: a live adapter that got a
\* page of n elements, k of them invalid, returns n - k postings, each with a
\* non-empty title and company; so has every posting scrapeAll returns and
\* every posting handed to saveJobs by a run; and every row of jobs has a
\* non-empty title and company.
C10_AcceptanceFilter ==
  /\ \A r \in Runs : \A s \in LiveSources :
       (adapters[r][s].state = "fulfilled" /\ adapters[r][s].fetch.ok) =>
         LET page == adapters[r][s].fetch.page
             k    == Cardinality({ i \in 1..Len(page) : Invalid(page[i]) })
         IN  /\ Len(Returned(r, s)) = Len(page) - k
             /\ \A i \in 1..Len(Returned(r, s)) :
                  /\ NonEmptyText(Returned(r, s)[i].title)
                  /\ NonEmptyText(Returned(r, s)[i].company)
  /\ \A r \in Runs : \A i \in 1..Len(result[r].elems) :
       /\ NonEmptyText(result[r].elems[i].title)
       /\ NonEmptyText(result[r].elems[i].company)
  /\ \A k \in 1..Len(calls) : \A i \in 1..Len(calls[k].batch) :
       /\ NonEmptyText(Prop(calls[k].batch[i], "title"))
       /\ NonEmptyText(Prop(calls[k].batch[i], "company"))
  /\ \A row \in jobs : NonEmptyText(row.title) /\ NonEmptyText(row.company)

\* C10 witness: an adapter got a page with invalid elements and returned
\* fewer postings than the page has elements, and scrapeAll returned them
C10_Witness ==
  \E r \in Runs : \E s \in LiveSources :
    /\ pc[r] = "Collected"
    /\ adapters[r][s].fetch.ok
    /\ \E i \in 1..Len(adapters[r][s].fetch.page) : Invalid(adapters[r][s].fetch.page[i])
    /\ Len(Returned(r, s)) > 0
    /\ Len(Returned(r, s)) < Len(adapters[r][s].fetch.page)
    /\ \E i \in 1..Len(result[r].elems) : result[r].elems[i].source = <<s>>

\* --------------------------------------------- claims about stored fields
\* C11: every row that saveJobs inserts for a sourceUrl it did not find is
\* stored active, with a scraped_date, so that the read queries, which
\* filter on is_active = 1, select it.
C11_InsertedRowIsActive ==
  \A k \in 1..Len(calls) : \A i \in 1..Len(calls[k].steps) :
    LET s == calls[k].steps[i]
    IN  (s.existing = {} /\ s.ok) =>
          \A r \in s.after :
            /\ r.scraped_date # Null
            /\ r \in SelectActive(s.after)

\* C12: after a posting is reconciled, the row stored under its sourceUrl
\* carries the posting's title, company, location, description, salary, job
\* type and posted date as the adapter produced them.
C12_MutableFieldsStored ==
  \A k \in 1..Len(calls) : \A i \in 1..Len(calls[k].steps) :
    LET s   == calls[k].steps[i]
        job == calls[k].batch[i]
    IN  s.ok =>
          /\ Cardinality(s.after) = 1
          /\ \A r \in s.after :
               /\ r.title = job.title
               /\ r.company = job.company
               /\ r.location = job.location
               /\ r.description = job.description
               /\ r.salary = job.salary
               /\ r.job_type = job.job_type
               /\ r.posted_date = job.posted_date

\* ------------------------------------------ claims about the run's logging
\* the rows of scraping_logs that run r wrote for source s
RunLogs(r, s) == { k \in 1..Len(logs) : logs[k].id = uuidv4(<<r, "log", s>>) }

\* C13: a run that reconciles has appended exactly one row to scraping_logs
\* for each source that harvested at least one posting, with status success,
\* jobs_scraped the size of the source's batch and jobs_added, jobs_updated
\* the counters of that source, and no row for a source whose batch is empty.
C13_RunLogAccounting ==
  /\ \A r \in Runs : pc[r] = "Done" =>
       \A i \in 1..Len(Sources) :
         LET s     == Sources[i]
             batch == adapters[r][s].value
         IN  IF Len(batch) > 0
               THEN /\ Cardinality(RunLogs(r, s)) = 1
                    /\ \A k \in RunLogs(r, s) :
                         /\ logs[k].source = <<s>>
                         /\ logs[k].status = <<"success">>
                         /\ logs[k].jobs_scraped = Len(batch)
                         /\ logs[k].jobs_added = ret[r].stats[s].added
                         /\ logs[k].jobs_updated = ret[r].stats[s].updated
               ELSE /\ RunLogs(r, s) = {}
                    /\ s \notin DOMAIN ret[r].stats
  /\ Len(logs) = Cardinality({ <<r, i>> \in Runs \X (1..Len(Sources)) :
                                 pc[r] = "Done" /\ Len(adapters[r][Sources[i]].value) > 0 })

\* a run has reconciled a collection in which one source is empty and another
\* is not, and a row logged counts an update
C13_Witness ==
  /\ \E r \in Runs : /\ pc[r] = "Done"
                     /\ adapters[r].tanitjob.value = <<>>
                     /\ adapters[r].keejob.value # <<>>
  /\ \E k \in 1..Len(logs) : logs[k].jobs_updated > 0

\* the position of a clock reading in the order a run makes them
ReadOrder(t) == CHOOSE i \in 1..Len(ClockReads) : ClockReads[i] = t[2]

\* C14: the duration of a run is taken after the last write of its
\* reconciliation, is part of the summary the run returns and is the
\* duration of each of its rows in scraping_logs.
C14_DurationCoversReconciliation ==
  \A r \in Runs : pc[r] = "Done" =>
    /\ "duration" \in DOMAIN ret[r]
    /\ \A i \in 1..Len(Sources) : \A k \in RunLogs(r, Sources[i]) :
         /\ ReadOrder(logs[k].duration.to) >= ReadOrder(logs[k].scraped_at)
         /\ "duration" \in DOMAIN ret[r] => logs[k].duration = ret[r].duration

\* --------------------------------------- claims about the phases of a run
\* the phases of a run in order; Collected is the resumption of runScrapers
\* after its await, where reconciliation starts
PhaseOrder == <<"Idle", "Collecting", "Collected", "Done">>

\* the position of a source in the order of the loop over sources
SourceIndex(source) == CHOOSE i \in 1..Len(Sources) : <<Sources[i]>> = source

\* the calls of saveJobs a step adds to the history
NewCalls == SubSeq(calls', Len(calls) + 1, Len(calls'))

\* C15: a run moves through its phases in order; scrapeAll returns only once
\* every adapter has completed; the store is read and written by a run only
\* after that, in the step that reconciles, which takes the sources one at a
\* time in their order and the postings of a source one at a time.
C15_JoinBarrierAndPhaseOrder ==
  [][ /\ \A r \in Runs : pc'[r] # pc[r] =>
           \E i \in 1..(Len(PhaseOrder) - 1) :
             pc[r] = PhaseOrder[i] /\ pc'[r] = PhaseOrder[i + 1]
      /\ \A r \in Runs : (pc[r] = "Collecting" /\ pc'[r] # "Collecting") =>
           \A s \in DOMAIN adapters[r] : adapters[r][s].state = "fulfilled"
      /\ (<<jobs, logs, calls>>' # <<jobs, logs, calls>>) =>
           \E r \in Runs :
             /\ pc[r] = "Collected" /\ pc'[r] = "Done"
             /\ \A s \in DOMAIN adapters[r] : adapters[r][s].state = "fulfilled"
             /\ calls = SubSeq(calls', 1, Len(calls))
             /\ \A a, b \in 1..Len(NewCalls) :
                  a < b => SourceIndex(NewCalls[a].source) < SourceIndex(NewCalls[b].source)
             /\ \A a \in 1..Len(NewCalls) :
                  /\ NewCalls[a].batch = adapters[r][NewCalls[a].source[1]].value
                  /\ Len(NewCalls[a].steps) = Len(NewCalls[a].batch)
                  /\ a = 1 => NewCalls[a].pre = jobs
    ]_vars

\* a run has reconciled the postings of two sources
C15_Witness ==
  \E r \in Runs : pc[r] = "Done" /\ Cardinality(DOMAIN ret[r].stats) >= 2

\* ------------------------------------------- claims about the stored rows
\* the sourceUrls that have a row in the store
StoredUrls(store) == { r.source_url : r \in store }

\* C16: no step deletes a stored record: the sourceUrls stored before a step
\* are stored after it, and the row of each is the same record, with the id
\* and creation time it had.
C16_RecordsNeverDeleted ==
  [][ /\ StoredUrls(jobs) \subseteq StoredUrls(jobs')
      /\ \A row \in jobs : \E kept \in jobs' :
           /\ kept.source_url = row.source_url
           /\ kept.id = row.id
           /\ kept.created_at = row.created_at
    ]_vars

\* the set of sourceUrls stored never shrinks
UrlsOnlyGrow == [][StoredUrls(jobs) \subseteq StoredUrls(jobs')]_vars

\* ------------------------------------------ claims about the description
\* the adapter of run 1 that has harvested a page, with element i of the
\* page and the posting made of it (every element of the pages of
\* SpecExtract is accepted)
Harvested == { s \in DOMAIN adapters[1] : adapters[1][s].state = "fulfilled" }
Extracted(s, i) == Trim(adapters[1][s].fetch.page[i].description)
PostingOf(s, i) == adapters[1][s].value[i]

\* C17: a description extracted with more than 500 characters is kept as its
\* first 500 characters exactly, one of at most 500 characters is kept
\* unchanged, and the row saveJobs stores for the posting has that
\* description.
C17_DescriptionTruncated ==
  /\ \A s \in Harvested : \A i \in 1..Len(adapters[1][s].fetch.page) :
       IF Len(Extracted(s, i)) > DescriptionBound
         THEN /\ Len(PostingOf(s, i).description) = DescriptionBound
              /\ \A j \in 1..DescriptionBound :
                   PostingOf(s, i).description[j] = Extracted(s, i)[j]
         ELSE PostingOf(s, i).description = Extracted(s, i)
  /\ \A k \in 1..Len(calls) : \A i \in 1..Len(calls[k].steps) :
       /\ calls[k].steps[i].ok
       /\ \A r \in calls[k].steps[i].after :
            r.description = calls[k].batch[i].description

\* a page with a description over the bound and one at the bound has been
\* harvested and its postings stored
C17_Witness ==
  /\ calls # <<>>
  /\ \E s \in Harvested :
       /\ \E i \in 1..Len(adapters[1][s].fetch.page) :
            Len(Extracted(s, i)) > DescriptionBound
       /\ \E i \in 1..Len(adapters[1][s].fetch.page) :
            Len(Extracted(s, i)) = DescriptionBound
  /\ \E r \in jobs : Len(r.description) = DescriptionBound

\* --------------------------------------- claims about colliding sourceUrls
\* postings i and j of a batch, i before j, have different titles and the
\* same sourceUrl
Collide(batch, i, j) ==
  /\ i < j
  /\ batch[i].title # batch[j].title
  /\ batch[i].sourceUrl = batch[j].sourceUrl

\* the records call k of the history created: the sourceUrls stored after it
\* that were not stored before
Created(k) == StoredUrls(StoreAfter(k)) \ StoredUrls(calls[k].pre)

RunOf(call) == call.batch[1].id[2]
LogRunOf(row) == row.id[2]

\* the iterations of the history whose lookup did not find sourceUrl u
CountedAdded(u) ==
  UNION { { <<k, i>> : i \in { m \in 1..Len(calls[k].steps) :
                                 /\ calls[k].batch[m].sourceUrl = u
                                 /\ calls[k].steps[m].existing = {} } } :
          k \in 1..Len(calls) }

\* the rows stored under the sourceUrl of posting i of call k when its
\* iteration starts: those the latest earlier iteration of the call with that
\* sourceUrl left, or those of the store the call started from
StoredBefore(k, i) ==
  LET u       == calls[k].batch[i].sourceUrl
      earlier == { m \in 1..(i - 1) : calls[k].batch[m].sourceUrl = u }
  IN  IF earlier = {}
        THEN RowsWithUrl(calls[k].pre, u)
        ELSE calls[k].steps[CHOOSE m \in earlier : \A n \in earlier : n <= m].after

\* C19: runs overlap during collection only. The calls of saveJobs and the
\* log rows of a run are not interleaved with those of another run, every
\* lookup sees the store as it is when its write happens, and so no
\* sourceUrl is found absent, and counted as added, more than once over all
\* runs.
C19_NoLookupInsertRace ==
  /\ \A a, b, c \in 1..Len(calls) :
       (a < b /\ b < c /\ RunOf(calls[a]) = RunOf(calls[c])) =>
         RunOf(calls[b]) = RunOf(calls[a])
  /\ \A a, b, c \in 1..Len(logs) :
       (a < b /\ b < c /\ LogRunOf(logs[a]) = LogRunOf(logs[c])) =>
         LogRunOf(logs[b]) = LogRunOf(logs[a])
  /\ \A k \in 1..Len(calls) : \A i \in 1..Len(calls[k].steps) :
       calls[k].steps[i].existing = StoredBefore(k, i)
  /\ \A k \in 1..Len(calls) : \A i \in 1..Len(calls[k].batch) :
       Cardinality(CountedAdded(calls[k].batch[i].sourceUrl)) <= 1

\* two runs overlapped: the run started second reconciled first, and the run
\* started first then found the rows of the other
C19_Witness ==
  /\ \A r \in 1..2 : pc[r] = "Done"
  /\ calls # <<>>
  /\ RunOf(calls[1]) = 2
  /\ \E k \in 1..Len(calls) :
       /\ RunOf(calls[k]) = 1
       /\ \E i \in 1..Len(calls[k].steps) : calls[k].steps[i].existing # {}

\* ----------------------------------------------- claims about termination
\* a result object with an explicit success flag, which carries an error
\* string when the flag is false
ExplicitResult(v) ==
  /\ "success" \in DOMAIN v
  /\ v.success \in {True, False}
  /\ v.success = False =>
       /\ "error" \in DOMAIN v
       /\ v.error \notin {Undefined, Null, <<>>}

\* C20: every run that has been started eventually returns (a run that has
\* returned stays so, and from some point on no run is in progress), and what
\* a run returns is a result object with an explicit success flag, with an
\* error string when the flag is false; no run ends otherwise.
C20_Termination ==
  /\ [][\A r \in Runs : pc[r] = "Done" => pc'[r] = "Done"]_vars
  /\ <>[](\A r \in Runs : pc[r] \in {"Idle", "Done"})
  /\ [](\A r \in Runs : pc[r] = "Done" => ExplicitResult(ret[r]))

\* an on-demand run has returned a failure and the route has answered
C20_Witness ==
  \E r \in Runs :
    /\ pc[r] = "Done"
    /\ trigger[r] = "request"
    /\ ret[r].success = False
    /\ response[r] # <<>>

====
